---- MODULE Spec2Model ----
(***************************************************************************)
(* docetl/operations/map.py: MapOperation.execute and                      *)
(* ParallelMapOperation.execute as state machines.                         *)
(*                                                                         *)
(* Spec    : one MapOperation.execute call (calibration pre-pass, nested   *)
(*           execute over the sample, batch pool, item pool, ordered       *)
(*           consumption of the futures).                                  *)
(* ParSpec : one ParallelMapOperation.execute call (flat facet pool,       *)
(*           ordered reassembly).                                          *)
(* SyntaxSpec  : ParallelMapOperation.syntax_check over the configurations, *)
(*               well-formed or not.                                       *)
(* TwoSpec     : two threads calling execute on one MapOperation, at the   *)
(*               grain of the reads and writes of self.config.             *)
(* EnginesSpec : an operation of either class (Spec or ParSpec).           *)
(*                                                                         *)
(* A record is a function from its keys to values; a value tells the input *)
(* record it belongs to (of) and who produced it (by: 0 the input record,  *)
(* n > 0 the n-th parsed output of an item, or the facet at position n).   *)
(*                                                                         *)
(* A worker thread is modelled by the states of the task it runs; a step   *)
(* is taken at each point where a thread blocks (a Model Invoker call, a   *)
(* future's result()) or reads shared state (runner.is_cancelled).         *)
(* Futures are 1-based here (batch_index 1 is the code's batch_index 0).   *)
(***************************************************************************)
EXTENDS Integers, Sequences, FiniteSets, TLC

\* ---------------------------------------------------------------- bounds
\* Longest input list.
MaxRecords == 3
\* Longest input list of an execute that calibrates (it runs the engine twice).
MaxCalibratedRecords == 2
\* Longest input list of an execute with a prompt whose configuration has
\* drop_keys or a flush flag.
MaxShapedRecords == 2
\* Deepest nesting of execute within _generate_calibration_context.
MaxDepth == 2
\* Most records of a run that combines batches and skips failed items.
MaxSkippingBatchRecords == 2
\* total_cost values one Model Invoker call may report.
Costs == {1}
\* Number of records parse_llm_response may return for one item (fan-out).
FanOut == {1, 2}
\* The field names of every input record, and the keys of the output schema
\* of a MapOperation: "a" is in both, "id" only in the records, "b" only in
\* the schema.
InputKeys == {"id", "a"}
SchemaKeys == {"a", "b"}
\* The drop_keys lists of the configurations that have one.
DropKeyLists == {{"id", "b"}}

\* ------------------------------------------------------ program constants
\* max_batch_size when neither the config nor the kwargs give one (None).
NoBatchSize == 0
\* schema.num_calibration_docs default, and config.get's default.
DefaultNumCalibrationDocs == 10

VARIABLES
  config,               \* self.config: the keys execute reads and writes
  max_batch_size,       \* self.max_batch_size
  input_data,           \* execute's argument: a list of record ids
  is_cancelled,         \* self.runner.is_cancelled
  pc,                   \* where the thread that called execute is
  nested,               \* TRUE inside the execute that calibration calls
  original_calibrate,   \* _generate_calibration_context's local
  calibration_sample,   \* _generate_calibration_context's local
  calibration_results,  \* _generate_calibration_context's local
  data,                 \* input_data of the running execute frame
  batchSt,              \* the _process_map_batch futures
  itemSt,               \* the _process_map_item futures (by position in data)
  batch_index,          \* the consuming loop's index
  results,              \* execute's running output list
  total_cost,           \* execute's running cost
  retval,               \* what execute returned
  exc,                  \* the exception propagating out of / raised by execute
  spent,                \* MapOperation: sum of total_cost over the Model Invoker calls that returned
  flushed,              \* MapOperation: the runner._flush_partial_results calls made so far
  run,                  \* MapOperation: the threads that call execute on one operation, each with its stack of frames
  calls,                \* MapOperation: the nested executes begun, the calibration calls issued, the deepest nesting of execute
  max_threads,          \* ParallelMapOperation: self.max_threads
  all_futures,          \* ParallelMapOperation: the process_prompt futures
  future_i,             \* ParallelMapOperation: the reassembly loop's i (1-based)
  par_results,          \* ParallelMapOperation: the results dict (1-based item_index)
  observability         \* the dict each input record holds under "_observability_<name>"

mapVars == <<max_batch_size, nested, original_calibrate, calibration_sample,
             calibration_results, data, batchSt, itemSt, batch_index, results,
             flushed, run, calls>>
parVars == <<max_threads, all_futures, future_i, par_results, observability>>

vars == <<config, input_data, is_cancelled, pc, total_cost, retval, exc, spent,
          mapVars, parVars>>

\* ------------------------------------------------------------- helpers
Min(a, b) == IF a < b THEN a ELSE b

\* Mutant of IsException: CancelledError caught like any other exception.
IsExceptionAlways(e) == TRUE

\* Every exception class but asyncio.CancelledError derives from Exception,
\* so `except Exception` catches it.
IsException(e) == e # "CancelledError"

OriginalPrompt == <<"prompt">>

\* litellm_completion_kwargs, by its temperature entry: the dict of a
\* configuration that sets a temperature, the {} that config.get falls back
\* to, and the dict after completion_kwargs["temperature"] = 0.0.
ConfiguredTemperature == "0.7"
ForcedTemperature == "0.0"
ConfiguredKwargs == [temperature |-> ConfiguredTemperature]
EmptyKwargs == [temperature |-> "unset"]

\* A submitted task that no worker has taken yet. kwargs is the
\* litellm_completion_kwargs its call_llm is given. initial_result is the
\* argument the item task is submitted with: 0 for None, k for the k-th
\* entry of the batch's parsed_output. calls counts the call_llm_batch calls
\* the batch task has issued, parsed is len(parsed_output).
NoItem == [st |-> "queued", outputs |-> 0, cost |-> 0, exc |-> "", called |-> FALSE,
           initial_result |-> 0, kwargs |-> EmptyKwargs]
NoBatch == [st |-> "queued", cost |-> 0, exc |-> "", calls |-> 0, parsed |-> 0]
NoRetval == [results |-> <<>>, cost |-> 0]
\* What an input record holds under "_observability_<name>": nothing, or a
\* dict; prompts is the set of prompt_index whose "prompt_<index>" entry
\* was written into the dict since execute was called.
NoDict == [present |-> FALSE, prompts |-> {}]
GivenDict == [present |-> TRUE, prompts |-> {}]
\* Nothing called yet: no execute begun inside _generate_calibration_context,
\* no calibration call issued, no execute nested in another.
NoCalls == [nested_executes |-> 0, calibration_calls |-> 0, depth |-> 0]

\* Mutant of batch_size: without a configured size the whole input is one
\* batch.
batch_size_whole ==
  IF max_batch_size # NoBatchSize THEN max_batch_size
  ELSE IF Len(input_data) > 0 THEN Len(input_data) ELSE 1

\* batch_size = self.max_batch_size if self.max_batch_size is not None else 1
batch_size == IF max_batch_size # NoBatchSize THEN max_batch_size ELSE 1

\* len(range(0, len(d), batch_size))
NumBatches(d) == (Len(d) + batch_size - 1) \div batch_size

\* The positions of d that input_data[i : i + batch_size] takes for the b-th batch.
BatchItems(b, d) ==
  [k \in 1 .. (Min(b * batch_size, Len(d)) - (b - 1) * batch_size)
     |-> (b - 1) * batch_size + k]

BatchOf(p) == ((p - 1) \div batch_size) + 1

\* len(parsed_output), the list the response of a batch call holds under
\* "results": no entry, one entry short of the items, an entry per item.
ParsedLengths(items) == {0, Len(items) - 1, Len(items)}

\* Mutant of items_and_outputs: the last parsed entry is not handed out
\* (idx < len(parsed_output) - 1).
items_and_outputs_short(items, parsed) ==
  [k \in DOMAIN items |->
     [item |-> items[k], output |-> IF k < parsed THEN k ELSE 0]]

\* items_and_outputs of a batch whose call returned a list of `parsed`
\* entries: (item, parsed_output[idx] if idx < len(parsed_output) else None),
\* with the 1-based k for the code's idx + 1 and 0 for None.
items_and_outputs(items, parsed) ==
  [k \in DOMAIN items |->
     [item |-> items[k], output |-> IF k <= parsed THEN k ELSE 0]]

\* Mutant of PoolHasRoom: one pool for both tiers. A task is taken only
\* while the batch tasks holding a worker and the item tasks of the batches
\* of several items are fewer than the limit.
PoolHasRoomOnePool(running) ==
  IF max_batch_size = NoBatchSize THEN TRUE
  ELSE Cardinality({b \in DOMAIN batchSt :
                      /\ batchSt[b].st \in {"batch_call", "items"}
                      /\ \E p \in DOMAIN itemSt :
                           /\ ((p - 1) \div max_batch_size) + 1 = b
                           /\ itemSt[p].st \in {"queued", "invoking"}})
         + Cardinality({p \in DOMAIN itemSt :
                          itemSt[p].st = "invoking" /\ max_batch_size > 1})
         < max_batch_size

\* Mutant of PoolHasRoom: a pool that starts every task at once.
PoolHasRoomUnbounded(running) == TRUE

\* ThreadPoolExecutor(max_workers=self.max_batch_size): a task is taken from
\* the queue only by a free worker; max_workers=None gives more workers than
\* any input of this model has tasks.
PoolHasRoom(running) ==
  max_batch_size = NoBatchSize \/ Cardinality(running) < max_batch_size

ItemDone(p) == itemSt[p].st \in {"returned", "raised"}

\* The future of batch b is done: the batch call (or its rendering) raised, or
\* every item task of the batch has finished, which is when the loop over the
\* item futures and the exit of the inner pool's with block get through.
BatchDone(b) ==
  \/ batchSt[b].st = "raised"
  \/ /\ batchSt[b].st = "items"
     /\ \A k \in DOMAIN BatchItems(b, data) : ItemDone(BatchItems(b, data)[k])

RunningBatches ==
  {b \in DOMAIN batchSt : batchSt[b].st \in {"batch_call", "items"} /\ ~BatchDone(b)}
RunningItems(b) ==
  {p \in DOMAIN itemSt : BatchOf(p) = b /\ itemSt[p].st = "invoking"}

\* The input record with id r: a value for every field, marked as the
\* record's own (by 0).
Record(r) == [k \in InputKeys |-> [by |-> 0, of |-> r]]

\* The n-th mapping parse_llm_response returns for the validated response to
\* the item r: a value for every key of the schema it was given.
ParsedOutput(r, n, schema) == [k \in schema |-> [by |-> n, of |-> r]]

\* Mutant of Merged: a key the item already has keeps the item's value.
MergedItemWins(item, output) ==
  [k \in (DOMAIN item) \cup (DOMAIN output) |->
     IF k \in DOMAIN item THEN item[k] ELSE output[k]]

\* Mutant of Merged: the output's keys only, the item's fields are lost.
MergedOutputOnly(item, output) == output

\* {**item, **output}, and dict.update(output): the output's value wins.
Merged(item, output) ==
  [k \in (DOMAIN item) \cup (DOMAIN output) |->
     IF k \in DOMAIN output THEN output[k] ELSE item[k]]

\* Mutant of WithoutKeys: nothing is removed.
WithoutKeysNothing(fields, keys) == fields

\* {k: v for k, v in result.items() if k not in drop_keys}, and
\* item.pop(key, None) for every key of drop_keys.
WithoutKeys(fields, keys) == [k \in (DOMAIN fields) \ keys |-> fields[k]]

\* outputs = [{**item, **output} for output in outputs]; src and n keep
\* where a record comes from.
Outputs(p, it) ==
  [k \in 1 .. it.outputs |->
     [src |-> data[p], n |-> k,
      fields |-> Merged(Record(data[p]), ParsedOutput(data[p], k, config.schema))]]

\* Mutant of CollectItems: each item's records are put in front of the list.
RECURSIVE CollectItemsReversed(_, _, _)
CollectItemsReversed(ps, i, acc) ==
  IF i > Len(ps) THEN acc
  ELSE LET it == itemSt[ps[i]] IN
       IF it.st = "raised"
       THEN IF it.exc # "CancelledError" /\ config.skip_on_error
            THEN CollectItemsReversed(ps, i + 1, acc)
            ELSE [acc EXCEPT !.exc = it.exc]
       ELSE CollectItemsReversed(ps, i + 1,
              [acc EXCEPT !.result = Outputs(ps[i], it) \o @,
                          !.cost = @ + it.cost])

\* Mutant of CollectItems: an item's exception is skipped whatever
\* skip_on_error says.
RECURSIVE CollectItemsSkipAlways(_, _, _)
CollectItemsSkipAlways(ps, i, acc) ==
  IF i > Len(ps) THEN acc
  ELSE LET it == itemSt[ps[i]] IN
       IF it.st = "raised"
       THEN IF it.exc # "CancelledError"
            THEN CollectItemsSkipAlways(ps, i + 1, acc)
            ELSE [acc EXCEPT !.exc = it.exc]
       ELSE CollectItemsSkipAlways(ps, i + 1,
              [acc EXCEPT !.result = @ \o Outputs(ps[i], it),
                          !.cost = @ + it.cost])

\* Mutant of CollectItems: a skipped item ends the loop (break for continue).
RECURSIVE CollectItemsBreak(_, _, _)
CollectItemsBreak(ps, i, acc) ==
  IF i > Len(ps) THEN acc
  ELSE LET it == itemSt[ps[i]] IN
       IF it.st = "raised"
       THEN IF it.exc # "CancelledError" /\ config.skip_on_error
            THEN acc
            ELSE [acc EXCEPT !.exc = it.exc]
       ELSE CollectItemsBreak(ps, i + 1,
              [acc EXCEPT !.result = @ \o Outputs(ps[i], it),
                          !.cost = @ + it.cost])

\* Mutant of CollectItems: the cost is added only when results is not None.
RECURSIVE CollectItemsCostIfResults(_, _, _)
CollectItemsCostIfResults(ps, i, acc) ==
  IF i > Len(ps) THEN acc
  ELSE LET it == itemSt[ps[i]] IN
       IF it.st = "raised"
       THEN IF it.exc # "CancelledError" /\ config.skip_on_error
            THEN CollectItemsCostIfResults(ps, i + 1, acc)
            ELSE [acc EXCEPT !.exc = it.exc]
       ELSE CollectItemsCostIfResults(ps, i + 1,
              [acc EXCEPT !.result = @ \o Outputs(ps[i], it),
                          !.cost = @ + (IF it.outputs > 0 THEN it.cost ELSE 0)])

\* The loop over the item futures of one batch (and the single-item branch):
\* futures[i].result() in submission order; acc is (all_results, total_cost)
\* and the exception that left the loop, if one did.
RECURSIVE CollectItems(_, _, _)
CollectItems(ps, i, acc) ==
  IF i > Len(ps) THEN acc
  ELSE LET it == itemSt[ps[i]] IN
       IF it.st = "raised"
       THEN IF IsException(it.exc) /\ config.skip_on_error
            THEN CollectItems(ps, i + 1, acc)
            ELSE [acc EXCEPT !.exc = it.exc]
       ELSE CollectItems(ps, i + 1,
              [acc EXCEPT !.result = @ \o Outputs(ps[i], it),
                          !.cost = @ + it.cost])

\* What the future of the finished batch b holds: _process_map_batch's
\* (all_results, total_cost), or the exception it raised.
process_map_batch(b) ==
  IF batchSt[b].st = "raised"
  THEN [result |-> <<>>, cost |-> batchSt[b].cost, exc |-> batchSt[b].exc]
  ELSE CollectItems(BatchItems(b, data), 1,
                    [result |-> <<>>, cost |-> batchSt[b].cost, exc |-> ""])

\* random.sample(input_data, k): k distinct records in some order.
Samples(d, k) ==
  {s \in [1 .. k -> 1 .. Len(d)] : \A i, j \in 1 .. k : i # j => s[i] # s[j]}

\* The state of a frame of execute right after it has submitted its batches.
StartRun(d) ==
  /\ data' = d
  /\ batchSt' = [b \in 1 .. NumBatches(d) |-> NoBatch]
  /\ itemSt' = [p \in 1 .. Len(d) |-> NoItem]
  /\ batch_index' = 1
  /\ results' = <<>>
  /\ total_cost' = 0
  /\ pc' = "consume"

\* ----------------------------------------------------------------- Init
Configs ==
  [type : {"map"},
   has_prompt : BOOLEAN,
   prompt : {OriginalPrompt},
   schema : {SchemaKeys},
   has_drop_keys : BOOLEAN,
   drop_keys : DropKeyLists \cup {{}},
   flush_partial_result : BOOLEAN,
   flush_partial_results : BOOLEAN,
   calibrate : BOOLEAN,
   num_calibration_docs : {1, DefaultNumCalibrationDocs},
   skip_on_error : BOOLEAN,
   batch_prompt : BOOLEAN,
   has_completion_kwargs : BOOLEAN,
   litellm_completion_kwargs : {EmptyKwargs, ConfiguredKwargs}]

\* MapOperation.syntax_check passes: a non-empty drop_keys, or a prompt (and
\* an output schema, which every configuration of this model has).
syntax_check_map(c) == c.drop_keys # {} \/ c.has_prompt

\* The configurations the model starts from: those syntax_check accepts, an
\* absent option at its default. The options that shape the records
\* (drop_keys, the flush flags) are varied over the runs that neither
\* calibrate nor combine a batch, the drop-only configuration has the other
\* options unset, and the key the flush reads is set only together with the
\* field the schema declares. litellm_completion_kwargs, when present, sets
\* a temperature, and is varied over the calibrating runs that take the
\* default number of calibration documents and combine no batch.
RecordOptions(c) ==
  c.has_drop_keys \/ c.flush_partial_result \/ c.flush_partial_results

MapConfigs ==
  {c \in Configs :
     /\ syntax_check_map(c)
     /\ c.has_drop_keys <=> c.drop_keys # {}
     /\ ~c.calibrate => c.num_calibration_docs = DefaultNumCalibrationDocs
     /\ c.flush_partial_results => c.flush_partial_result
     /\ RecordOptions(c) => ~c.calibrate /\ ~c.batch_prompt
     /\ ~c.has_prompt => /\ ~c.skip_on_error
                         /\ ~c.flush_partial_result
     /\ c.litellm_completion_kwargs =
          (IF c.has_completion_kwargs THEN ConfiguredKwargs ELSE EmptyKwargs)
     /\ c.has_completion_kwargs =>
          /\ c.has_prompt /\ c.calibrate /\ ~c.batch_prompt
          /\ ~c.skip_on_error
          /\ c.num_calibration_docs = DefaultNumCalibrationDocs}

\* The state after construction, execute not yet called. A calibrating run
\* has at most MaxCalibratedRecords records and, with a batch template,
\* takes its input as one batch; a run whose options shape the records has
\* at most MaxShapedRecords, one with a batch template and skip_on_error at
\* most MaxSkippingBatchRecords.
Init ==
  /\ config \in MapConfigs
  /\ max_batch_size \in {NoBatchSize} \cup (1 .. MaxRecords)
  /\ input_data \in {[i \in 1 .. n |-> i] : n \in 0 .. MaxRecords}
  /\ config.calibrate => Len(input_data) <= MaxCalibratedRecords
  /\ (config.calibrate /\ config.batch_prompt) =>
       max_batch_size = Len(input_data)
  /\ (config.batch_prompt /\ config.skip_on_error) =>
       Len(input_data) <= MaxSkippingBatchRecords
  /\ (RecordOptions(config) /\ config.has_prompt) =>
       Len(input_data) <= MaxShapedRecords
  /\ is_cancelled = FALSE
  /\ pc = "idle"
  /\ nested = FALSE
  /\ original_calibrate = FALSE
  /\ calibration_sample = <<>>
  /\ calibration_results = <<>>
  /\ data = <<>>
  /\ batchSt = <<>>
  /\ itemSt = <<>>
  /\ batch_index = 1
  /\ results = <<>>
  /\ total_cost = 0
  /\ retval = NoRetval
  /\ exc = ""
  /\ spent = 0
  /\ flushed = <<>>
  /\ calls = NoCalls
  /\ run = <<>>
  /\ max_threads = 1
  /\ all_futures = <<>>
  /\ future_i = 1
  /\ par_results = <<>>
  /\ observability = [k \in DOMAIN input_data |-> NoDict]

\* -------------------------------------------------------------- actions
\* runner.is_cancelled is set by another thread, at any moment.
Cancel ==
  /\ ~is_cancelled
  /\ pc \notin {"returned", "raised"}
  /\ is_cancelled' = TRUE
  /\ UNCHANGED <<config, max_batch_size, input_data, pc, nested,
                 original_calibrate, calibration_sample, calibration_results,
                 data, batchSt, itemSt, batch_index, results, total_cost,
                 retval, exc, spent>>
  /\ UNCHANGED <<flushed, run, calls, parVars>>

\* Mutant of dropped_results: the records are returned last first.
dropped_results_reversed ==
  [k \in 1 .. Len(input_data) |->
     [src |-> input_data[Len(input_data) + 1 - k], n |-> 0,
      fields |-> WithoutKeys(Record(input_data[Len(input_data) + 1 - k]),
                             config.drop_keys)]]

\* The drop-only path: every record without the keys of drop_keys.
dropped_results ==
  [k \in 1 .. Len(input_data) |->
     [src |-> input_data[k], n |-> 0,
      fields |-> WithoutKeys(Record(input_data[k]), config.drop_keys)]]

\* Mutant of calibration_disabled: the flag is left as it is.
calibration_left_on(c) == c

\* self.config["calibrate"] = False, before the execute on the sample.
calibration_disabled(c) == [c EXCEPT !.calibrate = FALSE]

\* Line 280, as the execute called on the sample evaluates it on the
\* configuration c it finds.
nested_calibrates(c) == c.calibrate /\ c.has_prompt

\* execute is entered. Without a prompt and with drop_keys it returns the
\* records without those keys, at once. With calibrate set,
\* _generate_calibration_context samples, clears config["calibrate"] and
\* calls execute on the sample; that nested call finds calibrate cleared and
\* goes straight to its batches.
Execute ==
  /\ pc = "idle"
  /\ config.type = "map"
  /\ IF ~config.has_prompt /\ config.has_drop_keys
     THEN /\ retval' = [results |-> dropped_results, cost |-> 0]
          /\ pc' = "returned"
          /\ UNCHANGED <<config, nested, original_calibrate, calibration_sample,
                         data, batchSt, itemSt, batch_index, results, total_cost,
                         exc, calls>>
     ELSE /\ IF config.calibrate /\ config.has_prompt
             THEN /\ original_calibrate' = config.calibrate
                  /\ IF nested_calibrates(calibration_disabled(config))
                     THEN \* the execute called on the sample calibrates in
                          \* its turn, and so does the one it calls: the
                          \* recursion ends in a RecursionError, which
                          \* passes through every finally.
                          /\ pc' = "raised"
                          /\ exc' = "RecursionError"
                          /\ calls' = [calls EXCEPT !.nested_executes = MaxDepth,
                                                    !.depth = MaxDepth]
                          /\ UNCHANGED <<config, nested, calibration_sample,
                                         data, batchSt, itemSt, batch_index,
                                         results, total_cost>>
                     ELSE /\ LET k == Min(config.num_calibration_docs, Len(input_data)) IN
                             \E s \in (IF k = Len(input_data)
                                       THEN {[i \in 1 .. k |-> i]}
                                       ELSE Samples(input_data, k)) :
                               /\ calibration_sample' = [i \in 1 .. k |-> input_data[s[i]]]
                               /\ StartRun([i \in 1 .. k |-> input_data[s[i]]])
                          /\ config' = calibration_disabled(config)
                          /\ nested' = TRUE
                          /\ calls' = [calls EXCEPT !.nested_executes = @ + 1,
                                                    !.depth = 1]
                          /\ UNCHANGED exc
             ELSE /\ StartRun(input_data)
                  /\ UNCHANGED <<config, nested, original_calibrate,
                                 calibration_sample, exc, calls>>
          /\ UNCHANGED retval
  /\ UNCHANGED <<max_batch_size, input_data, is_cancelled, calibration_results,
                 spent>>
  /\ UNCHANGED <<flushed, run, parVars>>

\* self.config.get("litellm_completion_kwargs", {}): the dict of the
\* configuration itself when the key is present, a new {} otherwise.
get_completion_kwargs(c) ==
  IF c.has_completion_kwargs THEN c.litellm_completion_kwargs ELSE EmptyKwargs

\* _process_map_item up to call_llm: render the prompt and fetch the
\* attachment (either may raise), read runner.is_cancelled, issue the call
\* with the completion kwargs the configuration has at that moment.
process_map_item_start(p) ==
  \/ /\ itemSt' = [itemSt EXCEPT ![p] = [@ EXCEPT !.st = "raised", !.exc = "ItemError"]]
  \/ /\ is_cancelled
     /\ itemSt' = [itemSt EXCEPT ![p] = [@ EXCEPT !.st = "raised", !.exc = "CancelledError"]]
  \/ /\ ~is_cancelled
     /\ itemSt' = [itemSt EXCEPT ![p] = [@ EXCEPT !.st = "invoking", !.called = TRUE,
                                             !.kwargs = get_completion_kwargs(config)]]

\* A worker of the outer pool takes batch b from the queue and runs
\* _process_map_batch up to its first blocking point. With a batch_prompt
\* and several items that is the batch call (rendering the batch template,
\* or the pdf_url_key check, may raise before it). With several items and no
\* batch_prompt the item futures are submitted. A single item is processed
\* inline, by this thread.
BatchStart(b) ==
  /\ pc \in {"consume", "unwind"}
  /\ b \in DOMAIN batchSt
  /\ batchSt[b].st = "queued"
  /\ \A c \in 1 .. b - 1 : batchSt[c].st # "queued"
  /\ PoolHasRoom(RunningBatches)
  /\ IF Len(BatchItems(b, data)) > 1 /\ config.batch_prompt
     THEN /\ \E renders \in BOOLEAN :
               batchSt' = [batchSt EXCEPT ![b] =
                             IF renders
                             THEN [@ EXCEPT !.st = "batch_call", !.calls = @ + 1]
                             ELSE [@ EXCEPT !.st = "raised", !.exc = "BatchError"]]
          /\ UNCHANGED itemSt
     ELSE /\ batchSt' = [batchSt EXCEPT ![b].st = "items"]
          /\ IF Len(BatchItems(b, data)) > 1
             THEN UNCHANGED itemSt
             ELSE process_map_item_start(BatchItems(b, data)[1])
  /\ UNCHANGED <<config, max_batch_size, input_data, is_cancelled, pc, nested,
                 original_calibrate, calibration_sample, calibration_results,
                 data, batch_index, results, total_cost, retval, exc, spent>>
  /\ UNCHANGED <<flushed, run, calls, parVars>>

\* The item futures as the batch b submits them after a call that returned
\* a list of `parsed` entries: each with its item and its initial_result.
submit_items(b, parsed) ==
  LET paired == items_and_outputs(BatchItems(b, data), parsed) IN
    [p \in DOMAIN itemSt |->
       IF \E k \in DOMAIN paired : paired[k].item = p
       THEN [itemSt[p] EXCEPT
               !.initial_result =
                  paired[CHOOSE k \in DOMAIN paired : paired[k].item = p].output]
       ELSE itemSt[p]]

\* call_llm_batch returns (its cost is added to the batch's total_cost, the
\* response is parsed into parsed_output and the item futures are submitted,
\* each with its entry of the list or None) or it, or parsing its response,
\* raises.
BatchCallReturn(b) ==
  /\ b \in DOMAIN batchSt
  /\ batchSt[b].st = "batch_call"
  /\ \/ \E c \in Costs, parsed \in ParsedLengths(BatchItems(b, data)) :
          /\ batchSt' = [batchSt EXCEPT ![b].st = "items", ![b].cost = c,
                                        ![b].parsed = parsed]
          /\ itemSt' = submit_items(b, parsed)
          /\ spent' = spent + c
     \/ /\ batchSt' = [batchSt EXCEPT ![b].st = "raised", ![b].exc = "BatchError"]
        /\ UNCHANGED <<itemSt, spent>>
  /\ UNCHANGED <<config, max_batch_size, input_data, is_cancelled, pc, nested,
                 original_calibrate, calibration_sample, calibration_results,
                 data, batch_index, results, total_cost, retval, exc>>
  /\ UNCHANGED <<flushed, run, calls, parVars>>

\* A worker of the batch's inner pool takes item p from the queue and runs
\* _process_map_item up to call_llm.
ItemStart(p) ==
  /\ p \in DOMAIN itemSt
  /\ itemSt[p].st = "queued"
  /\ batchSt[BatchOf(p)].st = "items"
  /\ Len(BatchItems(BatchOf(p), data)) > 1
  /\ \A q \in 1 .. p - 1 : BatchOf(q) = BatchOf(p) => itemSt[q].st # "queued"
  /\ PoolHasRoom(RunningItems(BatchOf(p)))
  /\ process_map_item_start(p)
  /\ UNCHANGED <<config, max_batch_size, input_data, is_cancelled, pc, nested,
                 original_calibrate, calibration_sample, calibration_results,
                 data, batchSt, batch_index, results, total_cost, retval, exc,
                 spent>>
  /\ UNCHANGED <<flushed, run, calls, parVars>>

\* call_llm returns to _process_map_item: validated with one or more parsed
\* records, not validated (None and the cost), or parsing the returned
\* response raises; or call_llm itself raises.
ItemReturn(p) ==
  /\ p \in DOMAIN itemSt
  /\ itemSt[p].st = "invoking"
  /\ \/ \E c \in Costs, k \in FanOut :
          /\ itemSt' = [itemSt EXCEPT ![p] = [@ EXCEPT !.st = "returned", !.outputs = k, !.cost = c]]
          /\ spent' = spent + c
     \/ \E c \in Costs :
          /\ itemSt' = [itemSt EXCEPT ![p] = [@ EXCEPT !.st = "returned", !.outputs = 0, !.cost = c]]
          /\ spent' = spent + c
     \/ \E c \in Costs :
          /\ itemSt' = [itemSt EXCEPT ![p] = [@ EXCEPT !.st = "raised", !.exc = "ItemError"]]
          /\ spent' = spent + c
     \/ /\ itemSt' = [itemSt EXCEPT ![p] = [@ EXCEPT !.st = "raised", !.exc = "ItemError"]]
        /\ UNCHANGED spent
  /\ UNCHANGED <<config, max_batch_size, input_data, is_cancelled, pc, nested,
                 original_calibrate, calibration_sample, calibration_results,
                 data, batchSt, batch_index, results, total_cost, retval, exc>>
  /\ UNCHANGED <<flushed, run, calls, parVars>>

\* result_list after `if "drop_keys" in self.config`: every record of the
\* batch without the keys of drop_keys.
drop_result_list(result_list) ==
  IF config.has_drop_keys
  THEN [k \in DOMAIN result_list |->
          [result_list[k] EXCEPT !.fields = WithoutKeys(@, config.drop_keys)]]
  ELSE result_list

\* One turn of the consuming loop: futures[batch_index].result(). A batch
\* that raised ends the loop; the exception leaves the with block, whose
\* exit waits for every batch task. A non-empty result_list is filtered by
\* drop_keys, appended to results and, if config["flush_partial_results"]
\* is set, handed to runner._flush_partial_results with batch_index (0-based
\* in the call; kept 1-based here).
Consume ==
  /\ pc = "consume"
  /\ batch_index \in DOMAIN batchSt
  /\ BatchDone(batch_index)
  /\ LET r == process_map_batch(batch_index) IN
       IF r.exc # ""
       THEN /\ pc' = "unwind"
            /\ exc' = r.exc
            /\ UNCHANGED <<batch_index, results, total_cost, flushed>>
       ELSE /\ IF r.result # <<>>
               THEN /\ results' = results \o drop_result_list(r.result)
                    /\ flushed' =
                         IF config.flush_partial_results
                         THEN Append(flushed,
                                     [batch_index |-> batch_index,
                                      result_list |-> drop_result_list(r.result)])
                         ELSE flushed
               ELSE UNCHANGED <<results, flushed>>
            /\ total_cost' = total_cost + r.cost
            /\ batch_index' = batch_index + 1
            /\ UNCHANGED <<pc, exc>>
  /\ UNCHANGED <<config, max_batch_size, input_data, is_cancelled, nested,
                 original_calibrate, calibration_sample, calibration_results,
                 data, batchSt, itemSt, retval, spent>>
  /\ UNCHANGED <<run, calls, parVars>>

\* The loop is over: execute returns (results, total_cost). The nested
\* execute returns into _generate_calibration_context, which keeps the
\* results and drops the cost, and goes on to the calibration call.
ExecuteReturn ==
  /\ pc = "consume"
  /\ config.type = "map"
  /\ batch_index > Len(batchSt)
  /\ IF nested
     THEN /\ calibration_results' = results
          /\ nested' = FALSE
          /\ pc' = "calibration_call"
          /\ UNCHANGED retval
     ELSE /\ retval' = [results |-> results, cost |-> total_cost]
          /\ pc' = "returned"
          /\ UNCHANGED <<calibration_results, nested>>
  /\ UNCHANGED <<config, max_batch_size, input_data, is_cancelled,
                 original_calibrate, calibration_sample, data, batchSt, itemSt,
                 batch_index, results, total_cost, exc, spent>>
  /\ UNCHANGED <<flushed, run, calls, parVars>>

\* The with block has waited for every batch task: the exception leaves
\* execute. Out of the nested execute it passes through
\* _generate_calibration_context's finally, which restores calibrate.
ExecuteRaise ==
  /\ pc = "unwind"
  /\ config.type = "map"
  /\ \A b \in DOMAIN batchSt : BatchDone(b)
  /\ pc' = "raised"
  /\ config' = IF nested THEN [config EXCEPT !.calibrate = original_calibrate]
               ELSE config
  /\ nested' = FALSE
  /\ UNCHANGED <<max_batch_size, input_data, is_cancelled, original_calibrate,
                 calibration_sample, calibration_results, data, batchSt, itemSt,
                 batch_index, results, total_cost, retval, exc, spent>>
  /\ UNCHANGED <<flushed, run, calls, parVars>>

\* The examples of the calibration prompt:
\* for i, (input_doc, output_doc) in enumerate(zip(calibration_sample,
\* calibration_results)), as many as the shorter list has.
calibration_examples ==
  [i \in 1 .. Min(Len(calibration_sample), Len(calibration_results)) |->
     [input_doc |-> calibration_sample[i], output_doc |-> calibration_results[i]]]

\* completion_kwargs = self.config.get("litellm_completion_kwargs", {});
\* completion_kwargs["temperature"] = 0.0: with the key present
\* completion_kwargs is the configuration's own dict and the assignment
\* writes into the configuration, otherwise it writes into a new dict.
force_temperature(c) ==
  IF c.has_completion_kwargs
  THEN [c EXCEPT !.litellm_completion_kwargs.temperature = ForcedTemperature]
  ELSE c

\* _generate_calibration_context builds the calibration prompt and issues
\* the extra call (runner.is_cancelled is not read here).
CalibrationCall ==
  /\ pc = "calibration_call"
  /\ pc' = "calibrating"
  /\ config' = force_temperature(config)
  /\ calls' = [calls EXCEPT !.calibration_calls = @ + 1]
  /\ UNCHANGED <<max_batch_size, input_data, is_cancelled, nested,
                 original_calibrate, calibration_sample, calibration_results,
                 data, batchSt, itemSt, batch_index, results, total_cost,
                 retval, exc, spent>>
  /\ UNCHANGED <<flushed, run, parVars>>

\* What the main execute does with the calibration context: a non-empty one
\* is appended to config["prompt"]; then the batches are submitted.
augment_prompt(ctx) ==
  IF ctx # "" THEN [config EXCEPT !.prompt = Append(@, ctx),
                                  !.calibrate = original_calibrate]
  ELSE [config EXCEPT !.calibrate = original_calibrate]

\* The calibration call comes back: it raises (the finally restores
\* calibrate, nothing catches), or returns a result without a response
\* (context ""), or a response whose calibration_context is empty or not.
CalibrationReturn ==
  /\ pc = "calibrating"
  /\ \/ /\ pc' = "raised"
        /\ exc' = "CalibrationError"
        /\ config' = [config EXCEPT !.calibrate = original_calibrate]
        /\ UNCHANGED <<data, batchSt, itemSt, batch_index, results, total_cost,
                       spent>>
     \/ \E c \in Costs, ctx \in {"", "anchors"} :
          /\ spent' = spent + c
          /\ config' = augment_prompt(ctx)
          /\ StartRun(input_data)
          /\ UNCHANGED exc
  /\ calibration_sample' = <<>>
  /\ calibration_results' = <<>>
  /\ UNCHANGED <<max_batch_size, input_data, is_cancelled, nested,
                 original_calibrate, retval>>
  /\ UNCHANGED <<flushed, run, calls, parVars>>

Next ==
  \/ Cancel
  \/ Execute
  \/ \E b \in 1 .. MaxRecords : BatchStart(b) \/ BatchCallReturn(b)
  \/ \E p \in 1 .. MaxRecords : ItemStart(p) \/ ItemReturn(p)
  \/ Consume
  \/ ExecuteReturn
  \/ ExecuteRaise
  \/ CalibrationCall
  \/ CalibrationReturn

Spec == Init /\ [][Next]_vars

\* ========================================= the two pool tiers of execute
\* MapOperation.execute with a configured limit (max_batch_size, which sizes
\* the outer pool, each batch's inner pool and the batches) on inputs long
\* enough for several batches of several items. The configuration has a
\* prompt and nothing else, so the batch call and the calibration never run.

\* Longest input list, and largest configured limit.
MaxPoolRecords == 4
MaxPoolLimit == 2

PoolInit ==
  /\ config \in {c \in MapConfigs :
                   /\ c.has_prompt /\ ~c.calibrate /\ ~RecordOptions(c)
                   /\ ~c.batch_prompt /\ ~c.skip_on_error}
  /\ max_batch_size \in 1 .. MaxPoolLimit
  /\ input_data \in {[i \in 1 .. n |-> i] : n \in 0 .. MaxPoolRecords}
  /\ is_cancelled = FALSE
  /\ pc = "idle"
  /\ nested = FALSE
  /\ original_calibrate = FALSE
  /\ calibration_sample = <<>>
  /\ calibration_results = <<>>
  /\ data = <<>>
  /\ batchSt = <<>>
  /\ itemSt = <<>>
  /\ batch_index = 1
  /\ results = <<>>
  /\ total_cost = 0
  /\ retval = NoRetval
  /\ exc = ""
  /\ spent = 0
  /\ flushed = <<>>
  /\ calls = NoCalls
  /\ run = <<>>
  /\ max_threads = 1
  /\ all_futures = <<>>
  /\ future_i = 1
  /\ par_results = <<>>
  /\ observability = [k \in DOMAIN input_data |-> NoDict]

PoolNext ==
  \/ Cancel
  \/ Execute
  \/ \E b \in 1 .. MaxPoolRecords : BatchStart(b)
  \/ \E p \in 1 .. MaxPoolRecords : ItemStart(p) \/ ItemReturn(p)
  \/ Consume
  \/ ExecuteReturn
  \/ ExecuteRaise

PoolSpec == PoolInit /\ [][PoolNext]_vars

\* =================================================== ParallelMapOperation
\* Longest input list of ParallelMapOperation.execute, most facets (entries
\* of config["prompts"]) and most pool workers.
MaxParRecords == 2
MaxPrompts == 2
MaxThreads == 2
\* Most facet tasks of an execution whose facets' output_keys, schema and
\* drop_keys are varied.
MaxKeyedFutures == 2
\* The keys a facet's output_keys and the output schema are made of.
FacetKeys == {"a", "b"}

NoFuture == [st |-> "queued", cost |-> 0, exc |-> ""]

\* len(self.config["prompts"])
NumPrompts == Len(config.prompts)

\* Mutant of item_index: the remainder taken for the quotient.
item_index_mod(i) == ((i - 1) % Len(config.prompts)) + 1

\* item_index = i // len(prompts), prompt_index = i % len(prompts), for the
\* code's 0-based i; item_index is 1-based here, prompt_index 0-based as in
\* the code.
item_index(i) == ((i - 1) \div NumPrompts) + 1
prompt_index(i) == (i - 1) % NumPrompts

FutureDone(i) == all_futures[i].st \in {"returned", "raised"}
RunningFutures == {i \in DOMAIN all_futures : all_futures[i].st = "invoking"}

\* input_data[item_index].copy(): a record of its own for input record k,
\* whose values are the input record's values: a dict the input record
\* holds under "_observability_<name>" is shared with it. merged is the
\* list of the facets merged into the copy so far, prompts the entries of
\* an observability dict of its own.
CopyOf(k) ==
  [src |-> input_data[k], merged |-> <<>>, fields |-> Record(input_data[k]),
   observability |-> IF observability[k].present THEN "shared" ELSE "absent",
   prompts |-> {}]

\* The configurations of a ParallelMapOperation, well-formed or not: the
\* prompts list (each prompt configuration by its output_keys), the keys of
\* the output schema, drop_keys, enable_observability (varied over the
\* configurations whose facets ask for every key and that drop none).
RawParConfigs ==
  {c \in [type : {"parallel_map"},
          skip_on_error : BOOLEAN,
          has_prompts : BOOLEAN,
          prompts : UNION {[1 .. n -> [output_keys : SUBSET FacetKeys]] :
                             n \in 0 .. MaxPrompts},
          schema : (SUBSET FacetKeys) \ {{}},
          has_drop_keys : BOOLEAN,
          drop_keys : DropKeyLists \cup {{}},
          enable_observability : BOOLEAN] :
     /\ ~c.has_prompts => c.prompts = <<>>
     /\ c.has_drop_keys <=> c.drop_keys # {}
     /\ c.enable_observability =>
          /\ c.has_prompts /\ ~c.has_drop_keys /\ c.schema = FacetKeys
          /\ \A i \in DOMAIN c.prompts : c.prompts[i].output_keys = FacetKeys}

\* output_keys_covered after the loop over config["prompts"].
output_keys_covered(prompts) ==
  UNION {prompts[i].output_keys : i \in DOMAIN prompts}

\* Mutant of missing_keys: the difference taken the other way round.
missing_keys_reversed(c) == output_keys_covered(c.prompts) \ c.schema

\* missing_keys = set(output_schema.keys()) - output_keys_covered
missing_keys(c) == c.schema \ output_keys_covered(c.prompts)

\* ParallelMapOperation.syntax_check: the exception it raises, or "" when
\* it returns.
syntax_check(c) ==
  IF ~c.has_drop_keys /\ ~c.has_prompts THEN "ValueError"
  ELSE IF ~c.has_prompts THEN ""
  ELSE IF c.prompts = <<>> THEN "ValueError"
  ELSE IF \E i \in DOMAIN c.prompts : c.prompts[i].output_keys = {}
       THEN "ValueError"
  ELSE IF missing_keys(c) # {} THEN "ValueError"
  ELSE ""

\* The configurations execute is started with: those syntax_check accepts.
\* The output_keys, schema and drop_keys are varied over the executions of
\* at most MaxKeyedFutures facet tasks; a larger one has every facet ask
\* for every key of FacetKeys, which is the schema, and no drop_keys.
\* enable_observability, and the input records that already hold an
\* observability dict, are varied over the same executions.
ParConfigs == {c \in RawParConfigs : syntax_check(c) = ""}

AllKeysConfig(c) ==
  /\ c.schema = FacetKeys
  /\ \A i \in DOMAIN c.prompts : c.prompts[i].output_keys = FacetKeys
  /\ ~c.has_drop_keys

ParInit ==
  /\ config \in ParConfigs
  /\ input_data \in {[i \in 1 .. n |-> i] : n \in 0 .. MaxParRecords}
  /\ Len(input_data) * Len(config.prompts) > MaxKeyedFutures =>
       AllKeysConfig(config)
  /\ max_threads \in 1 .. MaxThreads
  /\ is_cancelled = FALSE
  /\ pc = "idle"
  /\ total_cost = 0
  /\ retval = NoRetval
  /\ exc = ""
  /\ spent = 0
  /\ all_futures = <<>>
  /\ future_i = 1
  /\ par_results = <<>>
  /\ observability \in [DOMAIN input_data -> {NoDict, GivenDict}]
  /\ ~config.enable_observability =>
       \A k \in DOMAIN input_data : observability[k] = NoDict
  /\ config.enable_observability =>
       Len(input_data) * Len(config.prompts) <= MaxKeyedFutures
  /\ max_batch_size = NoBatchSize
  /\ nested = FALSE
  /\ original_calibrate = FALSE
  /\ calibration_sample = <<>>
  /\ calibration_results = <<>>
  /\ data = <<>>
  /\ batchSt = <<>>
  /\ itemSt = <<>>
  /\ batch_index = 1
  /\ results = <<>>
  /\ flushed = <<>>
  /\ calls = NoCalls
  /\ run = <<>>

\* execute is entered: the drop-only path returns at once; otherwise one
\* future per (record, facet) is submitted, record-major.
ParExecute ==
  /\ pc = "idle"
  /\ config.type = "parallel_map"
  /\ IF ~config.has_prompts /\ config.has_drop_keys
     THEN /\ retval' = [results |->
                          [k \in 1 .. Len(input_data) |->
                             [CopyOf(k) EXCEPT
                                !.fields = WithoutKeys(@, config.drop_keys)]],
                        cost |-> 0]
          /\ pc' = "returned"
          /\ UNCHANGED all_futures
     ELSE /\ all_futures' = [i \in 1 .. Len(input_data) * NumPrompts |-> NoFuture]
          /\ pc' = "consume"
          /\ UNCHANGED retval
  /\ UNCHANGED <<config, input_data, is_cancelled, total_cost, exc, spent,
                 max_threads, future_i, par_results,
                 observability, mapVars>>

\* A pool worker takes future i from the queue and runs process_prompt up to
\* call_llm: rendering the facet's prompt or fetching the attachment may
\* raise; otherwise the call is issued. runner.is_cancelled is not read.
FacetStart(i) ==
  /\ i \in DOMAIN all_futures
  /\ all_futures[i].st = "queued"
  /\ \A j \in 1 .. i - 1 : all_futures[j].st # "queued"
  /\ Cardinality(RunningFutures) < max_threads
  /\ \/ all_futures' = [all_futures EXCEPT ![i].st = "invoking"]
     \/ all_futures' = [all_futures EXCEPT ![i] =
                          [@ EXCEPT !.st = "raised", !.exc = "FacetError"]]
  /\ UNCHANGED <<config, input_data, is_cancelled, pc, total_cost, retval, exc,
                 spent, max_threads, future_i, par_results,
                 observability, mapVars>>

\* call_llm returns to process_prompt, which parses the response and returns
\* (output, prompt, cost); or the call, or the parsing, raises.
FacetReturn(i) ==
  /\ i \in DOMAIN all_futures
  /\ all_futures[i].st = "invoking"
  /\ \/ \E c \in Costs :
          all_futures' = [all_futures EXCEPT ![i] =
                            [@ EXCEPT !.st = "returned", !.cost = c]]
     \/ all_futures' = [all_futures EXCEPT ![i] =
                          [@ EXCEPT !.st = "raised", !.exc = "FacetError"]]
  /\ UNCHANGED <<config, input_data, is_cancelled, pc, total_cost, retval, exc,
                 spent, max_threads, future_i, par_results,
                 observability, mapVars>>

\* The (item, prompt_config) future i was submitted with, record-major:
\* for item in input_data for prompt_config in self.config["prompts"].
submitted(i) ==
  [item |-> input_data[((i - 1) \div NumPrompts) + 1],
   facet |-> ((i - 1) % NumPrompts) + 1]

\* The output process_prompt returns for future i: parse_llm_response's
\* first mapping, a value for every key of local_output_schema (the facet's
\* output_keys), marked with the facet's position in the prompts list.
facet_output(i) ==
  ParsedOutput(submitted(i).item, submitted(i).facet,
               config.prompts[submitted(i).facet].output_keys)

\* The results dict after the facet output of future i is merged: the first
\* facet of a record stores a copy of the record, every facet updates it.
\* With enable_observability a copy that has no "_observability_<name>"
\* gets a new dict, and the facet's prompt is recorded.
merge_facet(i) ==
  LET k == item_index(i)
      base == IF prompt_index(i) = 0
              THEN [x \in (DOMAIN par_results) \cup {k} |->
                      IF x = k THEN CopyOf(k) ELSE par_results[x]]
              ELSE par_results
      updated == [base EXCEPT ![k].merged = Append(@, prompt_index(i)),
                              ![k].fields = Merged(@, facet_output(i))]
  IN IF ~config.enable_observability THEN updated
     ELSE [updated EXCEPT ![k] =
             IF @.observability = "shared" THEN @
             ELSE [@ EXCEPT !.observability = "own",
                            !.prompts = @ \cup {prompt_index(i)}]]

\* The dicts of the input records after the prompt of future i is
\* recorded: item_result["_observability_<name>"].update({"prompt_<index>":
\* prompt}) writes into the dict item_result holds, which is the input
\* record's dict when the input record has one (the copy is shallow).
record_prompt(i) ==
  LET k == item_index(i)
  IN IF ~config.enable_observability THEN observability
     ELSE [observability EXCEPT ![k] =
             IF @.present THEN [@ EXCEPT !.prompts = @ \cup {prompt_index(i)}]
             ELSE @]

\* One turn of the reassembly loop: all_futures[i].result(). Nothing catches
\* what result() raises, and skip_on_error is not read: the exception leaves
\* the with block, whose exit waits for every facet task.
ParConsume ==
  /\ pc = "consume"
  /\ future_i \in DOMAIN all_futures
  /\ FutureDone(future_i)
  /\ IF all_futures[future_i].st = "raised"
     THEN /\ pc' = "unwind"
          /\ exc' = all_futures[future_i].exc
          /\ UNCHANGED <<total_cost, future_i, par_results, observability>>
     ELSE /\ total_cost' = total_cost + all_futures[future_i].cost
          /\ par_results' = merge_facet(future_i)
          /\ observability' = record_prompt(future_i)
          /\ future_i' = future_i + 1
          /\ UNCHANGED <<pc, exc>>
  /\ UNCHANGED <<config, input_data, is_cancelled, retval, spent, max_threads,
                 all_futures, mapVars>>

\* The results dict after `if "drop_keys" in self.config`: every key of
\* drop_keys popped from every record.
par_dropped(res) ==
  IF config.has_drop_keys
  THEN [k \in DOMAIN res |->
          [res[k] EXCEPT !.fields = WithoutKeys(@, config.drop_keys)]]
  ELSE res

\* return [results[i] for i in range(len(input_data)) if i in results], total_cost
ordered_results ==
  LET res == par_dropped(par_results)
      present == {k \in 1 .. Len(input_data) : k \in DOMAIN res}
      RECURSIVE build(_)
      build(k) == IF k = 0 THEN <<>>
                  ELSE IF k \in present THEN Append(build(k - 1), res[k])
                  ELSE build(k - 1)
  IN build(Len(input_data))

\* The loop is over: drop_keys is applied and execute returns.
ParReturn ==
  /\ pc = "consume"
  /\ config.type = "parallel_map"
  /\ future_i > Len(all_futures)
  /\ retval' = [results |-> ordered_results, cost |-> total_cost]
  /\ pc' = "returned"
  /\ UNCHANGED <<config, input_data, is_cancelled, total_cost, exc, spent,
                 parVars, mapVars>>

\* The with block has waited for every facet task: the exception leaves execute.
ParRaise ==
  /\ pc = "unwind"
  /\ config.type = "parallel_map"
  /\ \A i \in DOMAIN all_futures : FutureDone(i)
  /\ pc' = "raised"
  /\ UNCHANGED <<config, input_data, is_cancelled, total_cost, retval, exc,
                 spent, parVars, mapVars>>

ParNext ==
  \/ Cancel
  \/ ParExecute
  \/ \E i \in 1 .. MaxParRecords * MaxPrompts : FacetStart(i) \/ FacetReturn(i)
  \/ ParConsume
  \/ ParReturn
  \/ ParRaise

ParSpec == ParInit /\ [][ParNext]_vars

\* ================================== ParallelMapOperation.syntax_check
\* A ParallelMapOperation is built from any configuration, and not yet
\* checked.
SyntaxInit ==
  /\ config \in RawParConfigs
  /\ pc = "unchecked"
  /\ input_data = <<>>
  /\ max_threads = 1
  /\ is_cancelled = FALSE
  /\ total_cost = 0
  /\ retval = NoRetval
  /\ exc = ""
  /\ spent = 0
  /\ all_futures = <<>>
  /\ future_i = 1
  /\ par_results = <<>>
  /\ observability = [k \in DOMAIN input_data |-> NoDict]
  /\ max_batch_size = NoBatchSize
  /\ nested = FALSE
  /\ original_calibrate = FALSE
  /\ calibration_sample = <<>>
  /\ calibration_results = <<>>
  /\ data = <<>>
  /\ batchSt = <<>>
  /\ itemSt = <<>>
  /\ batch_index = 1
  /\ results = <<>>
  /\ flushed = <<>>
  /\ calls = NoCalls
  /\ run = <<>>

\* syntax_check is called: it returns, and the operation may be executed,
\* or it raises.
ParSyntaxCheck ==
  /\ pc = "unchecked"
  /\ config.type = "parallel_map"
  /\ IF syntax_check(config) = ""
     THEN pc' = "idle" /\ UNCHANGED exc
     ELSE pc' = "rejected" /\ exc' = syntax_check(config)
  /\ UNCHANGED <<config, input_data, is_cancelled, total_cost, retval, spent,
                 mapVars, parVars>>

SyntaxNext == ParSyntaxCheck

SyntaxSpec == SyntaxInit /\ [][SyntaxNext]_vars

\* ================= two threads calling execute on one MapOperation
\* Each thread runs execute on an input of one record; the operation's
\* self.config is the one object both read and write. A step is one read or
\* one write of self.config, or a Model Invoker call. A frame is one
\* activation of execute with, inside it, _generate_calibration_context.

Executions == {1, 2}

\* The text the calibration call of thread e returns: e's own context.
ContextOf(e) == IF e = 1 THEN "anchors1" ELSE "anchors2"

NewFrame ==
  [pc |-> "enter", calibrated |-> FALSE, original_calibrate |-> FALSE,
   calibration_context |-> "", read_prompt |-> <<>>, raising |-> FALSE]

Top(e) == run[e].stack[Len(run[e].stack)]

\* run with the top frame of thread e replaced by f.
WithTop(e, f) == [run EXCEPT ![e].stack[Len(run[e].stack)] = f]

TwoInit ==
  /\ config \in {c \in MapConfigs :
                   /\ c.has_prompt /\ c.calibrate /\ ~RecordOptions(c)
                   /\ ~c.skip_on_error /\ ~c.batch_prompt
                   /\ c.num_calibration_docs = DefaultNumCalibrationDocs
                   /\ ~c.has_completion_kwargs}
  /\ run = [e \in Executions |-> [stack |-> <<NewFrame>>, rendered |-> {}]]
  /\ max_batch_size = NoBatchSize
  /\ input_data = <<1>>
  /\ is_cancelled = FALSE
  /\ pc = "threads"
  /\ nested = FALSE
  /\ original_calibrate = FALSE
  /\ calibration_sample = <<>>
  /\ calibration_results = <<>>
  /\ data = <<>>
  /\ batchSt = <<>>
  /\ itemSt = <<>>
  /\ batch_index = 1
  /\ results = <<>>
  /\ total_cost = 0
  /\ retval = NoRetval
  /\ exc = ""
  /\ spent = 0
  /\ flushed = <<>>
  /\ calls = NoCalls
  /\ max_threads = 1
  /\ all_futures = <<>>
  /\ future_i = 1
  /\ par_results = <<>>
  /\ observability = [k \in DOMAIN input_data |-> NoDict]

twoFixed == <<max_batch_size, input_data, is_cancelled, pc, nested,
              original_calibrate, calibration_sample, calibration_results,
              data, batchSt, itemSt, batch_index, results, total_cost, retval,
              exc, spent, flushed, calls, parVars>>

\* execute, line 280: with calibrate set, _generate_calibration_context is
\* called; otherwise calibration_context stays "" and the items are run.
TwoEnter(e) ==
  /\ e \in DOMAIN run
  /\ Top(e).pc = "enter"
  /\ run' = WithTop(e, [Top(e) EXCEPT
                          !.pc = IF config.calibrate THEN "read_calibrate"
                                 ELSE "items"])
  /\ UNCHANGED <<config, twoFixed>>

\* original_calibrate = self.config.get("calibrate", False)
TwoReadCalibrate(e) ==
  /\ e \in DOMAIN run
  /\ Top(e).pc = "read_calibrate"
  /\ run' = WithTop(e, [Top(e) EXCEPT !.pc = "clear_calibrate",
                                      !.calibrated = TRUE,
                                      !.original_calibrate = config.calibrate])
  /\ UNCHANGED <<config, twoFixed>>

\* self.config["calibrate"] = False
TwoClearCalibrate(e) ==
  /\ e \in DOMAIN run
  /\ Top(e).pc = "clear_calibrate"
  /\ config' = [config EXCEPT !.calibrate = FALSE]
  /\ run' = WithTop(e, [Top(e) EXCEPT !.pc = "nested_call"])
  /\ UNCHANGED twoFixed

\* calibration_results, _ = self.execute(calibration_sample)
TwoNestedCall(e) ==
  /\ e \in DOMAIN run
  /\ Top(e).pc = "nested_call"
  /\ Len(run[e].stack) < MaxDepth
  /\ run' = [WithTop(e, [Top(e) EXCEPT !.pc = "nested"]) EXCEPT
               ![e].stack = Append(@, NewFrame)]
  /\ UNCHANGED <<config, twoFixed>>

\* The item task of the frame renders self.config["prompt"] (line 304) and
\* makes its call; rendered keeps what the thread's outermost frame rendered.
TwoRender(e) ==
  /\ e \in DOMAIN run
  /\ Top(e).pc = "items"
  /\ run' = [WithTop(e, [Top(e) EXCEPT !.pc = "return"]) EXCEPT
               ![e].rendered = IF Len(run[e].stack) = 1
                               THEN @ \cup {config.prompt} ELSE @]
  /\ UNCHANGED <<config, twoFixed>>

\* The frame returns: the outermost to the thread, a nested one into
\* _generate_calibration_context, which goes on to the calibration call.
TwoReturn(e) ==
  /\ e \in DOMAIN run
  /\ Top(e).pc = "return"
  /\ run' = IF Len(run[e].stack) = 1
            THEN WithTop(e, [Top(e) EXCEPT !.pc = "returned"])
            ELSE [run EXCEPT ![e].stack =
                    [k \in 1 .. Len(@) - 1 |->
                       IF k = Len(@) - 1
                       THEN [@[k] EXCEPT !.pc = "calibration_call"]
                       ELSE @[k]]]
  /\ UNCHANGED <<config, twoFixed>>

\* The calibration call comes back with the thread's context, with no
\* usable text, or it raises; the finally block is next.
TwoCalibrationReturn(e) ==
  /\ e \in DOMAIN run
  /\ Top(e).pc = "calibration_call"
  /\ \/ \E ctx \in {"", ContextOf(e)} :
          run' = WithTop(e, [Top(e) EXCEPT !.pc = "finally",
                                          !.calibration_context = ctx])
     \/ run' = WithTop(e, [Top(e) EXCEPT !.pc = "finally", !.raising = TRUE])
  /\ UNCHANGED <<config, twoFixed>>

\* finally: self.config["calibrate"] = original_calibrate. Then the context
\* is returned to execute (line 281), or the exception goes on: out of the
\* thread's outermost frame, or into the finally of the frame around.
TwoFinally(e) ==
  /\ e \in DOMAIN run
  /\ Top(e).pc = "finally"
  /\ config' = [config EXCEPT !.calibrate = Top(e).original_calibrate]
  /\ run' = IF ~Top(e).raising
            THEN WithTop(e, [Top(e) EXCEPT
                               !.pc = IF Top(e).calibration_context # ""
                                      THEN "read_prompt" ELSE "items"])
            ELSE IF Len(run[e].stack) = 1
            THEN WithTop(e, [Top(e) EXCEPT !.pc = "raised"])
            ELSE [run EXCEPT ![e].stack =
                    [k \in 1 .. Len(@) - 1 |->
                       IF k = Len(@) - 1
                       THEN [@[k] EXCEPT !.pc = "finally", !.raising = TRUE]
                       ELSE @[k]]]
  /\ UNCHANGED twoFixed

\* The right-hand side of lines 286-288 reads self.config['prompt'] ...
TwoReadPrompt(e) ==
  /\ e \in DOMAIN run
  /\ Top(e).pc = "read_prompt"
  /\ run' = WithTop(e, [Top(e) EXCEPT !.pc = "write_prompt",
                                      !.read_prompt = config.prompt])
  /\ UNCHANGED <<config, twoFixed>>

\* ... and the assignment stores it with the context appended.
TwoWritePrompt(e) ==
  /\ e \in DOMAIN run
  /\ Top(e).pc = "write_prompt"
  /\ config' = [config EXCEPT
                  !.prompt = Append(Top(e).read_prompt, Top(e).calibration_context)]
  /\ run' = WithTop(e, [Top(e) EXCEPT !.pc = "items"])
  /\ UNCHANGED twoFixed

TwoNext ==
  \E e \in Executions :
    \/ TwoEnter(e)
    \/ TwoReadCalibrate(e)
    \/ TwoClearCalibrate(e)
    \/ TwoNestedCall(e)
    \/ TwoRender(e)
    \/ TwoReturn(e)
    \/ TwoCalibrationReturn(e)
    \/ TwoFinally(e)
    \/ TwoReadPrompt(e)
    \/ TwoWritePrompt(e)

TwoSpec == TwoInit /\ [][TwoNext]_vars

\* ============================================================ both engines
\* An operation of either class: the runner builds a MapOperation or a
\* ParallelMapOperation according to config["type"] and calls its execute.
EnginesInit == Init \/ ParInit

EnginesNext == Next \/ ParNext

EnginesSpec == EnginesInit /\ [][EnginesNext]_vars

\* ======================================================= under fairness
\* The executions termination is checked on. MapOperation.execute: every
\* configuration of Spec on its shorter inputs (a calibrating one without a
\* batch template), the longest of them as one combined batch, and the
\* inputs of PoolSpec that have two records per worker of the outer pool,
\* so that every worker can hold a batch of several items.
\* ParallelMapOperation.execute: the configurations of ParSpec whose facets
\* ask for every key. The scheduling is the one the code runs under: a
\* call to the Model Invoker (or to another collaborator) that was issued
\* comes back, a pool with a free worker and a queued task starts the
\* task, and the thread that called execute runs when it is not blocked.
\* Nothing is assumed of the thread that sets runner.is_cancelled.
LiveInit ==
  \/ /\ Init
     /\ Len(input_data) <= MaxCalibratedRecords
     /\ config.calibrate => ~config.batch_prompt
     /\ Len(input_data) = MaxCalibratedRecords =>
          /\ ~config.calibrate
          /\ config.batch_prompt
          /\ max_batch_size = Len(input_data)
  \/ /\ ParInit
     /\ AllKeysConfig(config)
     /\ Len(input_data) * Len(config.prompts) <= MaxKeyedFutures
  \/ /\ PoolInit
     /\ Len(input_data) = 2 * max_batch_size

LiveNext ==
  \/ Cancel
  \/ Execute
  \/ \E b \in DOMAIN batchSt : BatchStart(b) \/ BatchCallReturn(b)
  \/ \E p \in DOMAIN itemSt : ItemStart(p) \/ ItemReturn(p)
  \/ Consume
  \/ ExecuteReturn
  \/ ExecuteRaise
  \/ CalibrationCall
  \/ CalibrationReturn
  \/ ParExecute
  \/ \E i \in DOMAIN all_futures : FacetStart(i) \/ FacetReturn(i)
  \/ ParConsume
  \/ ParReturn
  \/ ParRaise

CallsComeBack ==
  \/ \E b \in DOMAIN batchSt : BatchCallReturn(b)
  \/ \E p \in DOMAIN itemSt : ItemReturn(p)
  \/ \E i \in DOMAIN all_futures : FacetReturn(i)
  \/ CalibrationReturn

WorkersTakeTasks ==
  \/ \E b \in DOMAIN batchSt : BatchStart(b)
  \/ \E p \in DOMAIN itemSt : ItemStart(p)
  \/ \E i \in DOMAIN all_futures : FacetStart(i)

CallerRuns ==
  \/ Execute \/ Consume \/ ExecuteReturn \/ ExecuteRaise \/ CalibrationCall
  \/ ParExecute \/ ParConsume \/ ParReturn \/ ParRaise

LiveSpec ==
  /\ LiveInit
  /\ [][LiveNext]_vars
  /\ WF_vars(CallsComeBack)
  /\ WF_vars(WorkersTakeTasks)
  /\ WF_vars(CallerRuns)

\* ================================================================ claims
\* The position of record r in the list d (the records of a list are distinct).
PosIn(d, r) == CHOOSE k \in DOMAIN d : d[k] = r

InInputOrder(out, d) ==
  \A i, j \in DOMAIN out :
    i < j => \/ PosIn(d, out[i].src) < PosIn(d, out[j].src)
             \/ out[i].src = out[j].src /\ out[i].n < out[j].n

AnItemRaised == \E p \in DOMAIN itemSt : itemSt[p].st = "raised"

\* The frame of execute that is running has not returned and cannot have.
NotReturned ==
  /\ pc \notin {"returned", "calibration_call", "calibrating"}
  /\ retval = NoRetval

\* The records of the items 1..p that returned validated, in item order.
RECURSIVE SurvivingOutputs(_)
SurvivingOutputs(p) ==
  IF p = 0 THEN <<>>
  ELSE SurvivingOutputs(p - 1) \o
       (IF itemSt[p].st = "returned"
        THEN [k \in 1 .. itemSt[p].outputs |-> [src |-> input_data[p], n |-> k]]
        ELSE <<>>)

\* C1: in every state of MapOperation.execute, under every interleaving of
\* batch and item completions, the running output list (and the returned
\* one) is in input order: records of an earlier input record come first,
\* and the records of one fanned-out item are adjacent and in parse order.
C1_OutputsInInputOrder ==
  /\ InInputOrder(results, data)
  /\ pc = "returned" => InInputOrder(retval.results, input_data)

C1_Witness ==
  /\ pc = "returned"
  /\ Len(input_data) = 3
  /\ max_batch_size = 2
  /\ Len(retval.results) >= 4

\* C2: the cost MapOperation.execute returns is the sum of the costs of all
\* the Model Invoker calls the execution issued and got a cost from (item
\* calls, batch calls, the nested sample execution's calls, the calibration
\* call).
C2_TotalCostIsSumOfCalls == pc = "returned" => retval.cost = spent

\* C3: with skip_on_error unset, once an item task has raised, the frame of
\* execute it belongs to never returns (no result reaches the caller), and
\* the execution is never stuck short of raising.
C3_ItemFailureAborts ==
  (~config.skip_on_error /\ AnItemRaised) =>
     /\ NotReturned
     /\ pc = "raised" \/ ENABLED Next

C3_Witness ==
  /\ pc = "raised"
  /\ ~config.skip_on_error
  /\ exc = "ItemError"
  /\ max_batch_size = 2
  /\ Len(data) = 3
  /\ Len(results) > 0
  /\ itemSt[3].st = "raised"

\* C4: with skip_on_error set, execute never raises an item task's ordinary
\* exception, and what it returns is exactly the records of the items that
\* returned validated, in input order: a failed item removes nothing else.
C4_SkipOnErrorDropsOnlyFailedItems ==
  config.skip_on_error =>
     /\ exc # "ItemError"
     /\ pc = "returned" =>
          [k \in DOMAIN retval.results |->
             [src |-> retval.results[k].src, n |-> retval.results[k].n]]
            = SurvivingOutputs(Len(input_data))

C4_Witness ==
  /\ pc = "returned"
  /\ config.skip_on_error
  /\ max_batch_size = 2
  /\ Len(input_data) = 3
  /\ \E p \in 1 .. 3 :
       /\ itemSt[p].st = "raised" /\ ~itemSt[p].called
       /\ \A q \in (1 .. 3) \ {p} : itemSt[q].st = "returned" /\ itemSt[q].outputs = 1
  /\ Len(retval.results) = 2

\* C5: in ParallelMapOperation.execute with skip_on_error set, a facet task
\* that raises does not make execute raise.
C5_SkipOnErrorDropsFailedFacet ==
  config.skip_on_error => ~(pc = "raised" /\ exc = "FacetError")

\* C6 as stated: an item task that finds the cancellation flag set issues no
\* call, its execute does not return, and what execute raises is the
\* cancellation error.
C6_CancelledItemRaisesCancelledError ==
  \A p \in DOMAIN itemSt :
    itemSt[p].exc = "CancelledError" =>
      /\ ~itemSt[p].called
      /\ NotReturned
      /\ pc = "raised" => exc = "CancelledError"

\* C6 as amended: an item task that finds the cancellation flag set issues no
\* call and its execute does not return but raises, also with skip_on_error
\* set; it raises the cancellation error unless a failure that the consuming
\* loops meet first propagates instead: a batch call's of an earlier batch,
\* or, with skip_on_error unset, an item's of an earlier position.
C6_CancellationNeverSwallowed ==
  \A p \in DOMAIN itemSt :
    itemSt[p].exc = "CancelledError" =>
      /\ ~itemSt[p].called
      /\ NotReturned
      /\ pc = "raised" \/ ENABLED Next
      /\ pc = "raised" =>
           \/ exc = "CancelledError"
           \/ /\ exc = "BatchError"
              /\ \E b \in 1 .. BatchOf(p) - 1 : batchSt[b].exc = "BatchError"
           \/ /\ exc = "ItemError"
              /\ ~config.skip_on_error
              /\ \E q \in 1 .. p - 1 : itemSt[q].exc = "ItemError"

C6_Witness ==
  /\ pc = "raised"
  /\ exc = "CancelledError"
  /\ config.skip_on_error
  /\ \E p, q \in DOMAIN itemSt :
       /\ itemSt[p].exc = "CancelledError"
       /\ itemSt[q].exc = "ItemError" /\ q < p

\* C7: while the cancellation flag is set no Model Invoker call is started:
\* no Map item call, no Map batch call, no Parallel Map facet call.
C7_NoCallStartsOnceCancelled ==
  [][is_cancelled =>
       /\ \A p \in DOMAIN itemSt' :
            itemSt'[p].st = "invoking" =>
              p \in DOMAIN itemSt /\ itemSt[p].st = "invoking"
       /\ \A b \in DOMAIN batchSt' :
            batchSt'[b].st = "batch_call" =>
              b \in DOMAIN batchSt /\ batchSt[b].st = "batch_call"
       /\ \A i \in DOMAIN all_futures' :
            all_futures'[i].st = "invoking" =>
              i \in DOMAIN all_futures /\ all_futures[i].st = "invoking"]_vars

\* C8: a calibration call that raises does not make execute raise.
C8_CalibrationNeverFatal == ~(pc = "raised" /\ exc = "CalibrationError")

\* C9: when execute returns, config["prompt"] is what it was before the call.
C9_PromptRestoredOnReturn == pc = "returned" => config.prompt = OriginalPrompt

\* C10: whatever the order the facet tasks complete in, what
\* ParallelMapOperation.execute returns has one record per input record, the
\* k-th made from the k-th input record.
C10_OneRecordPerInputInOrder ==
  pc = "returned" =>
     /\ Len(retval.results) = Len(input_data)
     /\ \A k \in 1 .. Len(input_data) : retval.results[k].src = input_data[k]

C10_Witness ==
  /\ pc = "returned"
  /\ Len(input_data) = 2
  /\ Len(config.prompts) = 2
  /\ max_threads = 2
  /\ \A k \in 1 .. 2 : retval.results[k].merged = <<0, 1>>

\* The position of the last of the first m facets whose output_keys has the
\* key x, 0 when none has.
LastFacetWith(x, m) ==
  LET having == {j \in 1 .. m : x \in config.prompts[j].output_keys}
  IN IF having = {} THEN 0 ELSE CHOOSE j \in having : \A h \in having : h <= j

\* What last-writer-wins by facet position makes of the record r after its
\* first m facets: each key of the record or of a facet, with the value of
\* the last facet that has it, the record's own when no facet has.
LastWriterWins(r, m) ==
  [x \in InputKeys \cup output_keys_covered(SubSeq(config.prompts, 1, m)) |->
     [by |-> LastFacetWith(x, m), of |-> r]]

\* C11: whatever order the facet tasks complete in, a record of the results
\* dict holds, for every key, the value of the highest-positioned facet
\* merged so far that produced the key (the source record's value when no
\* facet did), and a returned record holds that of all the facets, less
\* the keys of drop_keys.
C11_MergeIsLastWriterWinsByPosition ==
  /\ \A k \in DOMAIN par_results :
       par_results[k].fields =
         LastWriterWins(input_data[k], Len(par_results[k].merged))
  /\ (pc = "returned" /\ config.type = "parallel_map" /\ config.has_prompts) =>
       \A k \in DOMAIN retval.results :
         retval.results[k].fields =
           WithoutKeys(LastWriterWins(input_data[k], NumPrompts),
                       config.drop_keys)

C11_Witness ==
  /\ pc = "returned"
  /\ config.type = "parallel_map"
  /\ max_threads = 2
  /\ Len(input_data) = 1
  /\ Len(config.prompts) = 2
  /\ config.prompts[1].output_keys = {"a", "b"}
  /\ config.prompts[2].output_keys = {"a"}
  /\ ~config.has_drop_keys
  /\ retval.results[1].fields =
       [x \in {"id", "a", "b"} |->
          [by |-> IF x = "a" THEN 2 ELSE IF x = "b" THEN 1 ELSE 0, of |-> 1]]

\* A MapOperation.execute with a prompt has returned.
MapReturned == pc = "returned" /\ config.type = "map" /\ config.has_prompt

\* C12 as stated: every record a MapOperation.execute with a prompt returns
\* has every key of the output schema and every field of its source record
\* that is not a schema key.
C12_RecordHasSchemaAndSourceKeys ==
  MapReturned =>
    \A k \in DOMAIN retval.results :
      (config.schema \cup InputKeys) \subseteq DOMAIN retval.results[k].fields

\* C12 as amended: every record a MapOperation.execute with a prompt returns
\* has every key of the output schema and every field of its source record
\* that is not a schema key, except the keys listed in drop_keys; such a
\* source field has the source record's value.
C12_RecordHasUndroppedSchemaAndSourceKeys ==
  MapReturned =>
    \A k \in DOMAIN retval.results :
      LET rec == retval.results[k] IN
        /\ (config.schema \cup InputKeys) \ config.drop_keys \subseteq DOMAIN rec.fields
        /\ \A x \in (InputKeys \ config.schema) \ config.drop_keys :
             rec.fields[x] = Record(rec.src)[x]

C12_Witness ==
  /\ MapReturned
  /\ config.drop_keys = {"id", "b"}
  /\ Len(retval.results) = 3
  /\ \A k \in 1 .. 3 : DOMAIN retval.results[k].fields = {"a"}
  /\ retval.results[1].src = retval.results[2].src

\* The records handed to runner._flush_partial_results so far.
FlushedRecords ==
  UNION {{flushed[i].result_list[k] : k \in DOMAIN flushed[i].result_list} :
           i \in DOMAIN flushed}

\* C13: no record that MapOperation.execute or ParallelMapOperation.execute
\* returns, and no record handed to the checkpoint sink, has a key listed
\* in drop_keys.
C13_NoDroppedKeyInOutput ==
  /\ pc = "returned" =>
       \A k \in DOMAIN retval.results :
         (DOMAIN retval.results[k].fields) \cap config.drop_keys = {}
  /\ \A rec \in FlushedRecords : (DOMAIN rec.fields) \cap config.drop_keys = {}

\* A MapOperation has dropped a source field and a model output's key from
\* the records it returned and flushed.
C13_Witness ==
  /\ MapReturned
  /\ config.drop_keys = {"id", "b"}
  /\ config.flush_partial_results
  /\ Len(flushed) = 2
  /\ Len(retval.results) = 3
  /\ \A rec \in FlushedRecords : DOMAIN rec.fields = {"a"}

\* A ParallelMapOperation has dropped a source field and the key its last
\* facet merged.
C13_ParWitness ==
  /\ pc = "returned"
  /\ config.type = "parallel_map"
  /\ config.drop_keys = {"id", "b"}
  /\ Len(config.prompts) = 2
  /\ config.prompts[2].output_keys = {"b"}
  /\ Len(retval.results) = 1
  /\ DOMAIN retval.results[1].fields = {"a"}

\* The configuration has drop_keys and no prompt (Map), no prompts list
\* (Parallel Map).
DropOnly ==
  /\ config.has_drop_keys
  /\ \/ config.type = "map" /\ ~config.has_prompt
     \/ config.type = "parallel_map" /\ ~config.has_prompts

\* C14: for both engines, a drop-only execute creates no task and issues no
\* Model Invoker call, does not raise, and returns cost 0 and a list as
\* long as the input whose k-th record is the k-th input record with
\* exactly the drop_keys fields removed.
C14_DropOnlyPath ==
  DropOnly =>
    /\ itemSt = <<>> /\ batchSt = <<>> /\ all_futures = <<>> /\ spent = 0
    /\ pc \in {"idle", "returned"}
    /\ pc = "returned" =>
         /\ retval.cost = 0
         /\ Len(retval.results) = Len(input_data)
         /\ \A k \in DOMAIN retval.results :
              /\ retval.results[k].src = input_data[k]
              /\ DOMAIN retval.results[k].fields = InputKeys \ config.drop_keys
              /\ \A x \in InputKeys \ config.drop_keys :
                   retval.results[k].fields[x] = [by |-> 0, of |-> input_data[k]]

C14_Witness ==
  /\ DropOnly
  /\ config.type = "map"
  /\ pc = "returned"
  /\ Len(input_data) = 3
  /\ config.drop_keys = {"id", "b"}
  /\ \A k \in 1 .. 3 : DOMAIN retval.results[k].fields = {"a"}

C14_ParWitness ==
  /\ DropOnly
  /\ config.type = "parallel_map"
  /\ pc = "returned"
  /\ Len(input_data) = 2
  /\ \A k \in 1 .. 2 : DOMAIN retval.results[k].fields = {"a"}

\* C15: syntax_check raises for every configuration with a prompts list in
\* which a key of the output schema is in no facet's output_keys.
C15_CoverageGapIsRejected ==
  (/\ pc # "unchecked"
   /\ config.has_prompts
   /\ \E x \in config.schema :
        \A i \in DOMAIN config.prompts : x \notin config.prompts[i].output_keys)
    => pc = "rejected" /\ exc # ""

\* A configuration whose only defect is the gap: two facets, both with
\* output_keys [a], and the schema keys a and b.
C15_Witness ==
  /\ pc = "rejected"
  /\ exc = "ValueError"
  /\ config.has_prompts
  /\ Len(config.prompts) = 2
  /\ \A i \in 1 .. 2 : config.prompts[i].output_keys = {"a"}
  /\ config.schema = {"a", "b"}

\* C16: in every configuration syntax_check accepts, each facet's
\* output_keys is a non-empty subset of the schema keys (so that their
\* union is the schema key set).
C16_OutputKeysWithinSchema ==
  (pc = "idle" /\ config.has_prompts) =>
     /\ \A i \in DOMAIN config.prompts :
          /\ config.prompts[i].output_keys # {}
          /\ config.prompts[i].output_keys \subseteq config.schema
     /\ output_keys_covered(config.prompts) = config.schema

\* The sum of f[k].cost over the k of S.
RECURSIVE SumCost(_, _)
SumCost(f, S) ==
  IF S = {} THEN 0
  ELSE LET k == CHOOSE x \in S : TRUE IN f[k].cost + SumCost(f, S \ {k})

\* A frame of execute has returned (the nested one into the calibration,
\* the main one to the caller) and its futures are still in the state.
FrameReturned ==
  /\ config.type = "map"
  /\ pc \in {"returned", "calibration_call", "calibrating"}

\* C17: when a frame of MapOperation.execute returns, no record of its
\* output comes from an item whose call reported validated = false, the
\* total it returns includes the cost of every call that returned
\* (validated or not, with the batch calls), and every validated item has
\* all its records in the output.
C17_UnvalidatedItemCostsButYieldsNothing ==
  FrameReturned =>
    /\ total_cost = SumCost(itemSt, {p \in DOMAIN itemSt : itemSt[p].st = "returned"})
                    + SumCost(batchSt, DOMAIN batchSt)
    /\ pc = "returned" => retval.cost = total_cost
    /\ \A p \in DOMAIN itemSt :
         itemSt[p].st = "returned" =>
           Cardinality({k \in DOMAIN results : results[k].src = data[p]})
             = itemSt[p].outputs

\* Batch size 2: the first item of a batch is not validated, the second is.
C17_Witness ==
  /\ pc = "returned"
  /\ config.type = "map"
  /\ max_batch_size = 2
  /\ Len(input_data) = 2
  /\ Len(itemSt) = 2
  /\ itemSt[1].st = "returned" /\ itemSt[1].outputs = 0 /\ itemSt[1].cost = 1
  /\ itemSt[2].st = "returned" /\ itemSt[2].outputs = 2
  /\ Len(retval.results) = 2
  /\ retval.cost = 2

\* C18: with skip_on_error set, a failure of a batch's combining step
\* (rendering the batch template, the batch call, parsing its response)
\* does not make MapOperation.execute raise.
C18_SkipOnErrorSwallowsBatchFailure ==
  (config.type = "map" /\ config.skip_on_error) =>
     ~(pc \in {"unwind", "raised"} /\ exc = "BatchError")

\* C19: when two threads run execute on one MapOperation with calibrate set,
\* a thread renders its items only after a calibration pre-pass of its own,
\* and what it renders is the original prompt followed by its own
\* calibration context and nothing else (the original prompt alone when its
\* calibration call gave no context).
C19_NoRaceOnSharedConfig ==
  \A e \in DOMAIN run :
    \A p \in run[e].rendered :
      LET f == run[e].stack[1] IN
        /\ f.calibrated
        /\ p = IF f.calibration_context = "" THEN OriginalPrompt
               ELSE Append(OriginalPrompt, f.calibration_context)

\* The batches of the running frame consumed so far that had a record to
\* return.
ConsumedWithRecords ==
  {b \in 1 .. batch_index - 1 : process_map_batch(b).result # <<>>}

\* C20: with partial-checkpoint flushing enabled (flush_partial_result, the
\* option the schema declares), every batch MapOperation.execute has
\* consumed has been handed to the checkpoint sink exactly once, under its
\* own index and with its surviving records, in increasing order of index
\* and after its records were appended to the running output.
C20_EveryBatchFlushedOnceInOrder ==
  (config.type = "map" /\ config.has_prompt /\ config.flush_partial_result
   /\ pc \in {"consume", "unwind", "raised", "returned"}) =>
     /\ Len(flushed) = batch_index - 1
     /\ \A i \in DOMAIN flushed :
          /\ flushed[i].batch_index = i
          /\ flushed[i].result_list =
               drop_result_list(process_map_batch(i).result)

\* What the code does when the key it reads, flush_partial_results, is set:
\* the consumed batches that had a record, and only those, have been
\* flushed once each, in increasing order, with their records, which are by
\* then in the running output.
C20_NonEmptyBatchesFlushedOnceInOrder ==
  (config.type = "map" /\ config.has_prompt /\ config.flush_partial_results
   /\ pc \in {"consume", "unwind", "raised", "returned"}) =>
     /\ {flushed[i].batch_index : i \in DOMAIN flushed} = ConsumedWithRecords
     /\ \A i, j \in DOMAIN flushed :
          i < j => flushed[i].batch_index < flushed[j].batch_index
     /\ \A i \in DOMAIN flushed :
          /\ flushed[i].result_list =
               drop_result_list(process_map_batch(flushed[i].batch_index).result)
          /\ \A k \in DOMAIN flushed[i].result_list :
               \E m \in DOMAIN results : results[m] = flushed[i].result_list[k]

\* The batch b has a batch_prompt to combine its items with: a template is
\* configured and the batch has more than one item.
Combining(b) == config.batch_prompt /\ Len(BatchItems(b, data)) > 1

\* A frame of execute is over: it returned or raised.
FrameOver ==
  config.type = "map" /\ pc \in {"returned", "raised", "calibration_call", "calibrating"}

\* C21: a batch task issues at most one batch call, and one only with a
\* batch template configured and more than one item; a batch that has got to
\* its items has issued exactly one call if and only if it is such a batch;
\* no item task of such a batch starts before the call has returned; the
\* item at position k of the batch is submitted with the k-th parsed entry
\* when the parsed list has one and with None otherwise; and when the frame
\* is over every item of a batch that got to its items has had its task.
C21_OneBatchCallThenPriorResults ==
  \A b \in DOMAIN batchSt :
    LET items == BatchItems(b, data) IN
      /\ batchSt[b].calls <= 1
      /\ batchSt[b].calls = 1 => Combining(b)
      /\ batchSt[b].st = "items" => (batchSt[b].calls = 1 <=> Combining(b))
      /\ (Combining(b) /\ batchSt[b].st # "items") =>
           \A k \in DOMAIN items : itemSt[items[k]].st = "queued"
      /\ batchSt[b].st = "items" =>
           \A k \in DOMAIN items :
             itemSt[items[k]].initial_result =
               IF Combining(b) /\ k <= batchSt[b].parsed THEN k ELSE 0
      /\ (FrameOver /\ batchSt[b].st = "items") =>
           \A k \in DOMAIN items : itemSt[items[k]].st # "queued"

\* A batch of three items whose call returned two entries: the first two
\* items ran with their entries, the third with no prior result.
C21_Witness ==
  /\ pc = "returned"
  /\ config.type = "map"
  /\ config.batch_prompt
  /\ Len(itemSt) = 3
  /\ Len(batchSt) = 1
  /\ batchSt[1].calls = 1
  /\ batchSt[1].parsed = 2
  /\ \A p \in 1 .. 3 : itemSt[p].st = "returned" /\ itemSt[p].called
  /\ itemSt[1].initial_result = 1
  /\ itemSt[2].initial_result = 2
  /\ itemSt[3].initial_result = 0

\* The item invocations in flight: the item tasks blocked in call_llm.
InFlight == {p \in DOMAIN itemSt : itemSt[p].st = "invoking"}

\* C22: with a configured limit L (max_batch_size), at every moment at most
\* L batch tasks are running, each running batch has at most L item tasks
\* running, and so at most L x L item invocations are in flight.
C22_InFlightBoundedByProduct ==
  max_batch_size # NoBatchSize =>
    /\ Cardinality(RunningBatches) <= max_batch_size
    /\ \A b \in DOMAIN batchSt : Cardinality(RunningItems(b)) <= max_batch_size
    /\ Cardinality(InFlight) <= max_batch_size * max_batch_size

\* The limit itself is exceeded: L = 2, 2L records, and more than L item
\* invocations in flight (two running batches of two running items each).
C22_Witness ==
  /\ max_batch_size = 2
  /\ Len(input_data) = 2 * max_batch_size
  /\ Cardinality(RunningBatches) = 2
  /\ Cardinality(InFlight) > max_batch_size
  /\ Cardinality(InFlight) = max_batch_size * max_batch_size

\* The batches of the running frame one after the other: the positions of
\* data in the order the batch tasks are given them.
RECURSIVE BatchesInOrder(_)
BatchesInOrder(b) ==
  IF b = 0 THEN <<>> ELSE BatchesInOrder(b - 1) \o BatchItems(b, data)

\* C23: the batches of a frame of MapOperation.execute, one after the other,
\* are the records of its input in input order, each once; every batch is
\* non-empty and has at most the configured size (1 when none is
\* configured), every batch but the last exactly that size; there is one
\* item future per record, and when the frame is over every record has had
\* its item task, but for the records of a batch whose combining step
\* raised.
C23_ContiguousBatchesOfConfiguredSize ==
  LET size == IF max_batch_size = NoBatchSize THEN 1 ELSE max_batch_size IN
    /\ BatchesInOrder(Len(batchSt)) = [k \in 1 .. Len(data) |-> k]
    /\ Len(itemSt) = Len(data)
    /\ \A b \in DOMAIN batchSt :
         LET items == BatchItems(b, data) IN
           /\ Len(items) >= 1
           /\ Len(items) <= size
           /\ b < Len(batchSt) => Len(items) = size
           /\ \A k \in DOMAIN items : BatchOf(items[k]) = b
    /\ FrameOver =>
         \A p \in DOMAIN itemSt :
           itemSt[p].st = "queued" => batchSt[BatchOf(p)].st = "raised"
    /\ MapReturned =>
         /\ data = input_data
         /\ \A p \in DOMAIN itemSt : itemSt[p].st # "queued"

\* Three records in batches of two: a full batch and a last one of one
\* record, every record with its item task.
C23_Witness ==
  /\ MapReturned
  /\ max_batch_size = 2
  /\ Len(input_data) = 3
  /\ Len(batchSt) = 2
  /\ BatchItems(1, data) = <<1, 2>>
  /\ BatchItems(2, data) = <<3>>
  /\ \A p \in 1 .. 3 : itemSt[p].called

\* Without a configured size: one batch per record.
C23_DefaultSizeWitness ==
  /\ MapReturned
  /\ max_batch_size = NoBatchSize
  /\ Len(input_data) = 3
  /\ Len(batchSt) = 3
  /\ \A b \in 1 .. 3 : BatchItems(b, data) = <<b>>

\* The calibration pre-pass of a calibrating execute is over: it returned
\* its context to execute, or an exception left it.
PrePassOver ==
  /\ config.type = "map"
  /\ calls.nested_executes > 0
  /\ ~nested
  /\ pc \in {"consume", "unwind", "returned", "raised"}

\* C24: a MapOperation.execute begins at most one execute on the sample and
\* issues at most one calibration call; while the nested execute runs the
\* calibrate flag is cleared and the nesting is one deep, and it never goes
\* deeper; a calibrating execute that gets to its main run has done exactly
\* one nested execute and exactly one calibration call, one that does not
\* calibrate none; and once the pre-pass has returned or raised the
\* calibrate flag is what it was before it (set).
C24_OneNestedExecuteAndFlagRestored ==
  config.type = "map" =>
    /\ calls.nested_executes <= 1
    /\ calls.calibration_calls <= 1
    /\ calls.depth <= 1
    /\ exc # "RecursionError"
    /\ nested => /\ ~config.calibrate
                 /\ calls.depth = 1
                 /\ calls.nested_executes = 1
                 /\ calls.calibration_calls = 0
    /\ pc \in {"calibration_call", "calibrating"} =>
         /\ ~config.calibrate
         /\ calls.calibration_calls = (IF pc = "calibrating" THEN 1 ELSE 0)
    /\ PrePassOver => config.calibrate = original_calibrate /\ config.calibrate
    /\ (PrePassOver /\ pc # "raised") =>
         calls.nested_executes = 1 /\ calls.calibration_calls = 1
    /\ (pc # "idle" /\ calls.nested_executes = 0) =>
         /\ calls = NoCalls
         /\ ~(config.calibrate /\ config.has_prompt)

\* A calibrating execute has returned: one nested execute, one calibration
\* call, the flag set again.
C24_Witness ==
  /\ MapReturned
  /\ Len(input_data) = 2
  /\ calls = [nested_executes |-> 1, calibration_calls |-> 1, depth |-> 1]
  /\ original_calibrate
  /\ config.calibrate

\* The pre-pass raised (an item of the sample failed): the flag is set again.
C24_RaiseWitness ==
  /\ pc = "raised"
  /\ exc = "ItemError"
  /\ calls = [nested_executes |-> 1, calibration_calls |-> 0, depth |-> 1]
  /\ config.calibrate

\* C25: in the calibration prompt the calibration call is issued with,
\* every example pairs a sampled input with an output record that was
\* produced from that input.
C25_ExamplesPairInputWithItsOutput ==
  pc = "calibrating" =>
    \A i \in DOMAIN calibration_examples :
      calibration_examples[i].output_doc.src = calibration_examples[i].input_doc

\* execute has returned or raised.
Finished == pc \in {"returned", "raised"}

\* No task of the execution is running or waiting for a worker.
NoTaskLeft ==
  /\ \A b \in DOMAIN batchSt : batchSt[b].st \notin {"queued", "batch_call"}
  /\ \A b \in DOMAIN batchSt :
       batchSt[b].st = "items" =>
         \A k \in DOMAIN BatchItems(b, data) : ItemDone(BatchItems(b, data)[k])
  /\ \A i \in DOMAIN all_futures : FutureDone(i)

\* C26: when every call that is issued comes back and the threads are
\* scheduled, MapOperation.execute and ParallelMapOperation.execute
\* eventually return or raise, for every input and every pool limit (1
\* included), and once execute has finished no task of the execution is
\* running or queued.
C26_ExecuteTerminatesWithNoTaskLeft ==
  /\ <>Finished
  /\ [](Finished => NoTaskLeft)

\* The case the nested pools could block in: limit 2, two batches of two
\* items each holding a worker of the outer pool, and execute returned.
C26_Witness ==
  /\ pc = "returned"
  /\ config.type = "map"
  /\ max_batch_size = 2
  /\ Len(input_data) = 4
  /\ NoTaskLeft
  /\ \A p \in 1 .. 4 : itemSt[p].called

\* C27: execute leaves its input as it was given: the list (its records
\* and their order) is the one execute was called with, and no value an
\* input record holds has been written to. The list is never assigned by
\* either engine; the values an engine can reach through the shallow
\* copies it makes are the observability dicts, which Init gives no entry.
C27_InputRecordsUnchanged ==
  /\ DOMAIN observability = DOMAIN input_data
  /\ \A k \in DOMAIN observability : observability[k].prompts = {}

\* The completion kwargs execute was configured with (a configuration of
\* MapConfigs that has the key has ConfiguredKwargs under it).
kwargs_before_calibration ==
  IF config.has_completion_kwargs THEN ConfiguredKwargs ELSE EmptyKwargs

\* C28: the item calls of the main run, after the calibration pre-pass, are
\* given the litellm_completion_kwargs the operation was configured with:
\* the temperature of the calibration call is not among them.
C28_MainRunCallsGetConfiguredKwargs ==
  PrePassOver =>
    \A p \in DOMAIN itemSt :
      itemSt[p].called => itemSt[p].kwargs = kwargs_before_calibration
====
